---- MODULE Spec2Model ----
(***************************************************************************)
(* Sample synthesis of the legacy data sequence adapters                   *)
(* (gridagentserver/legacy/datasequence_adapters/models.py).               *)
(*                                                                         *)
(* Timestamps are whole seconds 0..MaxT.  Raw values are integers,         *)
(* quantities are exact rationals (Python's Fraction), kept normalised.    *)
(* An optional value (Python's None) is a sequence of length 0 or 1.       *)
(* Python's assert statements are enabled (the interpreter's default): a   *)
(* failing assertion ends the generator that runs it, after the samples    *)
(* it had already yielded.                                                 *)
(***************************************************************************)
EXTENDS Integers, Sequences, FiniteSets, TLC

\* ------------------------------------------------------------------ bounds
MaxT == 3
MaxV == 1
MaxPoints == 2

Times == 0..MaxT
Values == 0..MaxV

\* gridplatform.utils.DATETIME_MIN, and DATETIME_MAX truncated to the hour.
DATETIME_MIN == 0
HOUR_MAX == MaxT

None == <<>>
Some(x) == <<x>>

\* F applied to the value of v, v being evaluated once.
Let(v, F(_)) == CHOOSE r \in { F(x) : x \in {v} } : TRUE

\* ------------------------------------------------------- exact quantities
Abs(i) == IF i < 0 THEN -i ELSE i

RECURSIVE GCD(_, _)
GCD(a, b) == IF b = 0 THEN a ELSE GCD(b, a % b)

\* fractions.Fraction(numerator, denominator): lowest terms, denominator > 0.
Fraction(numerator, denominator) ==
    LET s == IF denominator < 0 THEN -1 ELSE 1
        g == GCD(Abs(numerator), Abs(denominator))
    IN  [n |-> (s * numerator) \div g, d |-> (s * denominator) \div g]

\* PhysicalQuantity(value, unit): every quantity of one sequence has the
\* sequence's unit, so a quantity is its (rational) magnitude.
PhysicalQuantity(value) == Fraction(value, 1)

ZERO == PhysicalQuantity(0)

\* The value an expression has after an assertion inside it failed.
Raised == [n |-> 0, d |-> 0]

QAdd(a, b) ==
    IF a = Raised \/ b = Raised THEN Raised
    ELSE Fraction(a.n * b.d + b.n * a.d, a.d * b.d)

QSub(a, b) ==
    IF a = Raised \/ b = Raised THEN Raised
    ELSE Fraction(a.n * b.d - b.n * a.d, a.d * b.d)

QMul(a, b) ==
    IF a = Raised \/ b = Raised THEN Raised
    ELSE Fraction(a.n * b.n, a.d * b.d)

QLess(a, b) == a.n * b.d < b.n * a.d

Max(a, b) == IF a >= b THEN a ELSE b
Min(a, b) == IF a <= b THEN a ELSE b

\* ------------------------------------------------------------ raw data
\* A data source's rawdata_set: points with unique timestamps.
RawDataSets ==
    UNION { { { [timestamp |-> t, value |-> v[t]] : t \in ts } :
              v \in [ts -> Values] } :
            ts \in { s \in SUBSET Times : Cardinality(s) <= MaxPoints } }

\* order_by('timestamp').last() / .first(): None when the set is empty.
LastOf(points) ==
    IF points = {} THEN None
    ELSE Some(CHOOSE r \in points : \A o \in points : o.timestamp <= r.timestamp)

FirstOf(points) ==
    IF points = {} THEN None
    ELSE Some(CHOOSE r \in points : \A o \in points : r.timestamp <= o.timestamp)

RECURSIVE Ordered(_)
Ordered(points) ==
    IF points = {} THEN <<>>
    ELSE LET r == FirstOf(points)[1] IN <<r>> \o Ordered(points \ {r})

\* rawdata_set.filter(timestamp__gte=a, timestamp__lte=b), in the raw data's
\* default (timestamp) order.
RangeScan(datasource, a, b) ==
    Ordered({ r \in datasource : a <= r.timestamp /\ r.timestamp <= b })

\* is_clock_hour looking at the minutes only.
is_clock_hour_by_minute(timestamp) == timestamp.minute = 0

\* is_clock_hour: timestamp.minute == timestamp.second ==
\* timestamp.microsecond == 0, a chained comparison.
is_clock_hour(timestamp) ==
    /\ timestamp.minute = timestamp.second
    /\ timestamp.second = timestamp.microsecond
    /\ timestamp.microsecond = 0

\* interpolate without the slope term: the value of point_a.
interpolate_without_slope(timestamp, point_a, point_b) ==
    PhysicalQuantity(point_a.value)

interpolate(timestamp, point_a, point_b) ==
    IF ~(point_a.timestamp <= timestamp /\ timestamp < point_b.timestamp)
    THEN Raised
    ELSE QAdd(PhysicalQuantity(point_a.value),
              QMul(PhysicalQuantity(point_b.value - point_a.value),
                   Fraction(timestamp - point_a.timestamp,
                            point_b.timestamp - point_a.timestamp)))

\* ------------------------------------------------------------- samples
Sample(from_timestamp, to_timestamp, physical_quantity, cachable, extrapolated) ==
    [from_timestamp |-> from_timestamp, to_timestamp |-> to_timestamp,
     physical_quantity |-> physical_quantity,
     cachable |-> cachable, extrapolated |-> extrapolated]

\* Sample.timestamp of a point sample.
Timestamp(sample) == sample.from_timestamp

\* Sample._replace(timestamp=...): both ends of a point sample.
replace_timestamp(sample, timestamp) ==
    [sample EXCEPT !.from_timestamp = timestamp, !.to_timestamp = timestamp]

\* PeriodAdapterBase.create_point_sample
create_point_sample(timestamp, physical_quantity, cachable, extrapolated) ==
    Sample(timestamp, timestamp, physical_quantity, cachable, extrapolated)

\* DataSeries.create_point_sample, which the sequence adapters inherit.
DataSeries_create_point_sample(timestamp, physical_quantity, uncachable, extrapolated) ==
    Sample(timestamp, timestamp, physical_quantity, ~uncachable, extrapolated)

\* ------------------------------------------------------ period adapters
from_timestamp(period) ==
    IF period.from_timestamp # None THEN period.from_timestamp[1]
    ELSE DATETIME_MIN

to_timestamp(period) ==
    IF period.to_timestamp # None THEN period.to_timestamp[1]
    ELSE HOUR_MAX

_get_leading_raw_data(period, timestamp) ==
    LastOf({ r \in period.datasource : r.timestamp < timestamp })

_leading_raw_data(period) == _get_leading_raw_data(period, from_timestamp(period))

_get_following_raw_data(period, timestamp) ==
    FirstOf({ r \in period.datasource : r.timestamp > timestamp })

_first_raw_data(period) ==
    FirstOf({ r \in period.datasource :
                 /\ r.timestamp >= from_timestamp(period)
                 /\ r.timestamp <= to_timestamp(period) })

\* _interpolate_sample passing the two points in the other order.
_interpolate_sample_swapped(timestamp, raw_data_before, raw_data_after) ==
    create_point_sample(timestamp,
                        interpolate(timestamp, raw_data_after, raw_data_before),
                        TRUE, FALSE)

\* _interpolate_sample holding the value of the point before.
_interpolate_sample_held(timestamp, raw_data_before, raw_data_after) ==
    create_point_sample(timestamp, PhysicalQuantity(raw_data_before.value),
                        TRUE, FALSE)

_interpolate_sample(timestamp, raw_data_before, raw_data_after) ==
    create_point_sample(timestamp,
                        interpolate(timestamp, raw_data_before, raw_data_after),
                        TRUE, FALSE)

\* _extrapolate_sample with create_point_sample's default for cachable.
_extrapolate_sample_cachable(timestamp, raw_data) ==
    create_point_sample(timestamp, PhysicalQuantity(raw_data.value), TRUE, TRUE)

_extrapolate_sample(timestamp, raw_data) ==
    create_point_sample(timestamp, PhysicalQuantity(raw_data.value), FALSE, TRUE)

\* offset without the interpolation branch: the first point of the period
\* whenever there is one.
offset_of_first_raw_data(period) ==
    IF _first_raw_data(period) = None
    THEN IF _leading_raw_data(period) = None
         THEN PhysicalQuantity(0)
         ELSE PhysicalQuantity(_leading_raw_data(period)[1].value)
    ELSE PhysicalQuantity(_first_raw_data(period)[1].value)

offset(period) ==
    IF _first_raw_data(period) = None
    THEN IF _leading_raw_data(period) = None
         THEN PhysicalQuantity(0)
         ELSE PhysicalQuantity(_leading_raw_data(period)[1].value)
    ELSE IF _first_raw_data(period)[1].timestamp = from_timestamp(period)
         THEN PhysicalQuantity(_first_raw_data(period)[1].value)
         ELSE IF _leading_raw_data(period) # None
              THEN interpolate(from_timestamp(period),
                               _leading_raw_data(period)[1],
                               _first_raw_data(period)[1])
              ELSE PhysicalQuantity(_first_raw_data(period)[1].value)

_subtract_offset(period, sample) ==
    [sample EXCEPT !.physical_quantity = QSub(@, offset(period))]

\* A generator's outcome: the samples it yielded and the assertion that ended
\* it ("" when it ran to its end).
Outcome(samples, error) == [samples |-> samples, error |-> error]

\* A generator that computes the given samples in order: it stops at the
\* first one whose computation raised.
YieldedOf(samples) ==
    LET raising == { i \in 1..Len(samples) : samples[i].physical_quantity = Raised }
    IN  IF raising = {} THEN Outcome(samples, "")
        ELSE Outcome(SubSeq(samples, 1,
                            (CHOOSE i \in raising : \A j \in raising : i <= j) - 1),
                     "interpolate")

Yielded(samples) == Let(samples, YieldedOf)

\* AccumulationPeriodAdapterBase._get_raw_samples, as the list of samples it
\* yields in order (preconditions are those get_samples asserts).
_get_raw_samples(period, from_ts, to_ts) ==
    LET raw_data == RangeScan(period.datasource, from_ts, to_ts)
    IN
    IF raw_data = <<>>
    THEN LET leading_raw_data == _get_leading_raw_data(period, from_ts)
             following_raw_data == _get_following_raw_data(period, to_ts)
         IN
         IF leading_raw_data # None /\ following_raw_data # None
         THEN IF from_ts = to_ts
              THEN << _subtract_offset(period,
                        _interpolate_sample(from_ts, leading_raw_data[1],
                                            following_raw_data[1])) >>
              ELSE << _subtract_offset(period,
                        _interpolate_sample(from_ts, leading_raw_data[1],
                                            following_raw_data[1])),
                      _subtract_offset(period,
                        _interpolate_sample(to_ts, leading_raw_data[1],
                                            following_raw_data[1])) >>
         ELSE IF leading_raw_data # None \/ following_raw_data # None
         THEN LET raw_data_1 == IF leading_raw_data # None
                                THEN leading_raw_data[1]
                                ELSE following_raw_data[1]
              IN
              IF from_ts = to_ts
              THEN << _subtract_offset(period,
                        _extrapolate_sample(from_ts, raw_data_1)) >>
              ELSE << _subtract_offset(period,
                        _extrapolate_sample(from_ts, raw_data_1)),
                      _subtract_offset(period,
                        _extrapolate_sample(to_ts, raw_data_1)) >>
         ELSE <<>>
    ELSE LET first_raw_data == raw_data[1]
             final_raw_data == raw_data[Len(raw_data)]
             leading_raw_data ==
                 _get_leading_raw_data(period,
                                       Max(from_timestamp(period), from_ts))
             following_raw_data ==
                 _get_following_raw_data(period,
                                         Min(to_timestamp(period), to_ts))
             first_sample ==
                 IF leading_raw_data # None
                 THEN _interpolate_sample(from_ts, leading_raw_data[1],
                                          first_raw_data)
                 ELSE _extrapolate_sample(from_ts, first_raw_data)
             final_sample ==
                 IF following_raw_data # None
                 THEN _interpolate_sample(to_ts, final_raw_data,
                                          following_raw_data[1])
                 ELSE _extrapolate_sample(to_ts, final_raw_data)
         IN
         (IF first_raw_data.timestamp # from_ts
          THEN << _subtract_offset(period, first_sample) >> ELSE <<>>)
         \o [i \in 1..Len(raw_data) |->
               _subtract_offset(period,
                  create_point_sample(raw_data[i].timestamp,
                                      PhysicalQuantity(raw_data[i].value),
                                      TRUE, FALSE))]
         \o (IF final_raw_data.timestamp # to_ts
             THEN << _subtract_offset(period, final_sample) >> ELSE <<>>)

\* _conversion_factor the wrong way round: pulses per output quantity.
_conversion_factor_inverted(period) ==
    QMul(PhysicalQuantity(period.pulse_quantity),
         Fraction(1, period.output_quantity))

\* PulseAccumulationPeriodAdapter._conversion_factor
_conversion_factor(period) ==
    QMul(PhysicalQuantity(period.output_quantity),
         Fraction(1, period.pulse_quantity))

_convert_sample(period, sample) ==
    [sample EXCEPT !.physical_quantity = QMul(_conversion_factor(period), @)]

\* _get_converted_samples of the pulse and the non-pulse adapter.
_get_converted_samples(period, from_ts, to_ts) ==
    IF period.kind = "pulse"
    THEN LET raw == _get_raw_samples(period, from_ts, to_ts)
         IN  [i \in 1..Len(raw) |-> _convert_sample(period, raw[i])]
    ELSE _get_raw_samples(period, from_ts, to_ts)

\* PeriodAdapterBase.get_samples: the three range assertions, then the
\* adapter's _get_samples.
PeriodAdapterBase_get_samples(period, from_ts, to_ts) ==
    IF ~(from_ts <= to_ts) THEN Outcome(<<>>, "range")
    ELSE IF ~(from_ts >= from_timestamp(period)) THEN Outcome(<<>>, "range")
    ELSE IF ~(to_ts <= to_timestamp(period)) THEN Outcome(<<>>, "range")
    ELSE Yielded(_get_converted_samples(period, from_ts, to_ts))

\* AccumulationPeriodAdapterBase.get_samples over the outcome of the inherited
\* get_samples: replays the samples and asserts the postconditions of the
\* first and of the final sample.
Postconditions(period, from_ts, to_ts, inner) ==
    IF inner.samples = <<>> THEN inner
    ELSE IF Timestamp(inner.samples[1]) # from_ts
         THEN Outcome(<<>>, "first_timestamp")
    ELSE IF from_ts = from_timestamp(period)
            /\ inner.samples[1].physical_quantity # ZERO
         THEN Outcome(<<>>, "first_quantity")
    ELSE IF inner.error # "" THEN inner
    ELSE IF Timestamp(inner.samples[Len(inner.samples)]) # to_ts
         THEN Outcome(inner.samples, "final_timestamp")
    ELSE inner

AccumulationPeriodAdapterBase_get_samples(period, from_ts, to_ts) ==
    Let(PeriodAdapterBase_get_samples(period, from_ts, to_ts),
        LAMBDA inner : Postconditions(period, from_ts, to_ts, inner))

\* UnsupportedPeriodAdapter.get_samples
UnsupportedPeriodAdapter_get_samples(period, from_ts, to_ts) == Outcome(<<>>, "")

\* NonaccumulationPeriodAdapter._get_samples_pure_implementation, as the list
\* of samples it yields in order.
_get_samples_pure_implementation(period, from_ts, to_ts) ==
    LET raw_data == RangeScan(period.datasource,
                              Max(from_ts, from_timestamp(period)),
                              Min(to_ts, to_timestamp(period)))
        leading_raw_data == _get_leading_raw_data(period, from_ts)
        following_raw_data == _get_following_raw_data(period, to_ts)
    IN
    IF raw_data = <<>>
    THEN IF leading_raw_data # None /\ following_raw_data # None
         THEN IF from_ts = to_ts
              THEN << _interpolate_sample(from_ts, leading_raw_data[1],
                                          following_raw_data[1]) >>
              ELSE << _interpolate_sample(from_ts, leading_raw_data[1],
                                          following_raw_data[1]),
                      _interpolate_sample(to_ts, leading_raw_data[1],
                                          following_raw_data[1]) >>
         ELSE <<>>
    ELSE (IF raw_data[1].timestamp # from_ts /\ leading_raw_data # None
          THEN << _interpolate_sample(from_ts, leading_raw_data[1],
                                      raw_data[1]) >>
          ELSE <<>>)
         \o [i \in 1..Len(raw_data) |->
               create_point_sample(raw_data[i].timestamp,
                                   PhysicalQuantity(raw_data[i].value),
                                   TRUE, FALSE)]
         \o (IF raw_data[Len(raw_data)].timestamp # to_ts
                /\ following_raw_data # None
             THEN << _interpolate_sample(to_ts, raw_data[Len(raw_data)],
                                         following_raw_data[1]) >>
             ELSE <<>>)

\* NonaccumulationPeriodAdapter.get_samples: PeriodAdapterBase.get_samples
\* over _get_samples_pure_implementation.
NonaccumulationPeriodAdapter_get_samples(period, from_ts, to_ts) ==
    IF ~(from_ts <= to_ts) THEN Outcome(<<>>, "range")
    ELSE IF ~(from_ts >= from_timestamp(period)) THEN Outcome(<<>>, "range")
    ELSE IF ~(to_ts <= to_timestamp(period)) THEN Outcome(<<>>, "range")
    ELSE Yielded(_get_samples_pure_implementation(period, from_ts, to_ts))

\* get_samples of the adapter wrap_period chooses for the period.
get_samples(period, from_ts, to_ts) ==
    IF period.kind \in {"nonpulse", "pulse"}
    THEN AccumulationPeriodAdapterBase_get_samples(period, from_ts, to_ts)
    ELSE UnsupportedPeriodAdapter_get_samples(period, from_ts, to_ts)

\* ------------------------------------------------- the data sequence query
\* period_set.in_range(from, to).order_by('from_timestamp'): the periods that
\* intersect [from, to], by start.  period_set is kept in start order.
in_range(periods, from_ts, to_ts) ==
    SelectSeq(periods,
              LAMBDA p : from_timestamp(p) <= to_ts /\ to_timestamp(p) >= from_ts)

VARIABLES
    period_set,           \* the data sequence's periods, ordered by start
    request,              \* the arguments of the call under way
    pc,                   \* position of the generator
    input_periods,        \* the periods the generator has not consumed yet
    out,                  \* the samples yielded so far
    origin,               \* per yielded sample: index of the input period whose
                          \* adapter produced it, 0 for a synthetic sample
    period_offset,        \* _get_samples' period_offset
    last_sample_yielded,  \* _get_samples' last_sample_yielded (None or a sample)
    error,                \* the assertion that ended the call, "" if none
    cached_offset,        \* the offset property of the adapter under call:
                          \* None until it is computed
    development_sum       \* what datasequence.development_sum(from, to)
                          \* answers for the call under way (None if the
                          \* call is not calculate_development)

\* The gateway (emonhub/src/emonhub.py): EmonHub and its settings.
VARIABLES
    _interfacers,         \* EmonHub._interfacers: name -> running interfacer
    settings,             \* settings['interfacers'] of the update under way
    names,                \* the keys the loop under way has still to visit
    previous,             \* _interfacers when the update under way began
    stopped,              \* names of the interfacers the update has stopped
    created,              \* names of the interfacers the update has created
    set_calls             \* names of the running interfacers whose set() the
                          \* update has called

hub_vars ==
    <<_interfacers, settings, names, previous, stopped, created, set_calls>>

\* No gateway takes part.
NoHub ==
    /\ _interfacers = <<>>
    /\ settings = <<>>
    /\ names = {}
    /\ previous = <<>>
    /\ stopped = {}
    /\ created = {}
    /\ set_calls = {}

\* The state of a data sequence adapter's call, its position left out.
call_vars == <<period_set, request, input_periods, out, origin, period_offset,
               last_sample_yielded, error, cached_offset, development_sum>>

vars == <<period_set, request, pc, input_periods, out, origin, period_offset,
          last_sample_yielded, error, cached_offset, development_sum,
          hub_vars>>

Period(kind, from_ts, to_ts, datasource, pulse_quantity, output_quantity) ==
    [kind |-> kind, from_timestamp |-> from_ts, to_timestamp |-> to_ts,
     datasource |-> datasource,
     pulse_quantity |-> pulse_quantity, output_quantity |-> output_quantity]

\* Index in input order of the period being consumed.
Consumed == Len(in_range(period_set, request.from_timestamp,
                         request.to_timestamp)) - Len(input_periods)

add_period_offset(offset_, sample) ==
    [sample EXCEPT !.physical_quantity = QAdd(@, offset_)]

\* AccumulationAdapterBase._get_samples, lines 85-116: fetch the periods and
\* yield the extrapolated sample before the first period if necessary.
Start ==
    /\ pc = "call"
    /\ LET periods == in_range(period_set, request.from_timestamp,
                               request.to_timestamp)
       IN  /\ input_periods' = periods
           /\ IF periods = <<>>
              THEN /\ pc' = "end"
                   /\ UNCHANGED <<out, origin, last_sample_yielded>>
              ELSE /\ pc' = "first"
                   /\ IF from_timestamp(periods[1]) > request.from_timestamp
                      THEN LET first_sample ==
                                 DataSeries_create_point_sample(
                                     request.from_timestamp,
                                     PhysicalQuantity(0), TRUE, TRUE)
                           IN  /\ out' = <<first_sample>>
                               /\ origin' = <<0>>
                               /\ last_sample_yielded' = Some(first_sample)
                      ELSE UNCHANGED <<out, origin, last_sample_yielded>>
    /\ period_offset' = ZERO
    /\ UNCHANGED <<hub_vars, development_sum, period_set, request, error, cached_offset>>

\* Lines 118-125: the samples of the first period, as they are.
FirstPeriod ==
    /\ pc = "first"
    /\ \E got \in { get_samples(Head(input_periods),
                                 Max(request.from_timestamp,
                                     from_timestamp(Head(input_periods))),
                                 Min(request.to_timestamp,
                                     to_timestamp(Head(input_periods)))) } :
       LET n == Len(got.samples)
       IN  /\ out' = out \o got.samples
           /\ origin' = origin \o [i \in 1..n |-> 1]
           /\ IF n > 0
              THEN /\ period_offset' = got.samples[n].physical_quantity
                   /\ last_sample_yielded' = Some(got.samples[n])
              ELSE UNCHANGED <<period_offset, last_sample_yielded>>
           /\ error' = got.error
           /\ pc' = IF got.error = "" THEN "rest" ELSE "raised"
    /\ input_periods' = Tail(input_periods)
    /\ UNCHANGED <<hub_vars, development_sum, period_set, request, cached_offset>>

\* Lines 131-143: a later period, without its first sample and with the
\* offset of the period before it added.
NextPeriod ==
    /\ pc = "rest"
    /\ input_periods # <<>>
    /\ \E got \in { get_samples(Head(input_periods),
                                 Max(request.from_timestamp,
                                     from_timestamp(Head(input_periods))),
                                 Min(request.to_timestamp,
                                     to_timestamp(Head(input_periods)))) } :
       LET n == Len(got.samples)
       IN  /\ out' = out \o [i \in 1..(n - 1) |->
                               add_period_offset(period_offset,
                                                 got.samples[i + 1])]
           /\ origin' = origin \o [i \in 1..(n - 1) |-> Consumed + 1]
           /\ last_sample_yielded' = IF n > 1 THEN Some(got.samples[n])
                                     ELSE last_sample_yielded
           /\ period_offset' = IF n > 0 THEN got.samples[n].physical_quantity
                               ELSE ZERO
           /\ error' = got.error
           /\ pc' = IF got.error = "" THEN "rest" ELSE "raised"
    /\ input_periods' = Tail(input_periods)
    /\ UNCHANGED <<hub_vars, development_sum, period_set, request, cached_offset>>

\* Lines 152-162 yielding one sample for a range of one instant.
NoSampleYielded_once_per_instant(from_ts, to_ts) ==
    IF from_ts = to_ts
    THEN << DataSeries_create_point_sample(from_ts, PhysicalQuantity(0),
                                           TRUE, TRUE) >>
    ELSE << DataSeries_create_point_sample(from_ts, PhysicalQuantity(0),
                                           TRUE, TRUE),
            DataSeries_create_point_sample(to_ts, PhysicalQuantity(0),
                                           TRUE, TRUE) >>

\* Lines 152-162: what a call that yielded no sample yields at its end.
NoSampleYielded(from_ts, to_ts) ==
    << DataSeries_create_point_sample(from_ts, PhysicalQuantity(0), TRUE, TRUE),
       DataSeries_create_point_sample(to_ts, PhysicalQuantity(0), TRUE, TRUE) >>

\* Lines 145-162 without the test of line 147: the sample after the last
\* period is yielded whatever the timestamp of the last sample.
Finish_without_timestamp_test ==
    /\ \/ pc = "end"
       \/ pc = "rest" /\ input_periods = <<>>
    /\ IF last_sample_yielded = None
       THEN /\ out' = NoSampleYielded(request.from_timestamp,
                                       request.to_timestamp)
            /\ origin' = <<0, 0>>
       ELSE IF pc = "rest"
       THEN /\ out' = Append(out,
                        [replace_timestamp(last_sample_yielded[1],
                                           request.to_timestamp) EXCEPT
                            !.cachable = FALSE,
                            !.extrapolated = TRUE])
            /\ origin' = Append(origin, 0)
       ELSE UNCHANGED <<out, origin>>
    /\ pc' = "done"
    /\ UNCHANGED <<hub_vars, development_sum, period_set, request, input_periods,
                   period_offset, last_sample_yielded, error, cached_offset>>

\* Lines 145-162: the extrapolated sample after the last period if necessary,
\* and the two zero samples of a call that yielded nothing.
Finish ==
    /\ \/ pc = "end"
       \/ pc = "rest" /\ input_periods = <<>>
    /\ IF last_sample_yielded = None
       THEN /\ out' = NoSampleYielded(request.from_timestamp,
                                       request.to_timestamp)
            /\ origin' = <<0, 0>>
       ELSE IF pc = "rest"
               /\ Timestamp(last_sample_yielded[1]) # request.to_timestamp
       THEN /\ out' = Append(out,
                        [replace_timestamp(last_sample_yielded[1],
                                           request.to_timestamp) EXCEPT
                            !.cachable = FALSE,
                            !.extrapolated = TRUE])
            /\ origin' = Append(origin, 0)
       ELSE UNCHANGED <<out, origin>>
    /\ pc' = "done"
    /\ UNCHANGED <<hub_vars, development_sum, period_set, request, input_periods, period_offset,
                   last_sample_yielded, error, cached_offset>>

\* ------------------------------------------------------------ the inputs
\* The bounds <<start, end>> of periods in time order that do not overlap,
\* none starting before t.
RECURSIVE LayoutsFrom(_)
LayoutsFrom(t) ==
    {<<>>} \cup
    UNION { { <<b>> \o rest : rest \in LayoutsFrom(b[2]) } :
            b \in { c \in (t..MaxT) \X (t..MaxT) : c[1] < c[2] } }

Layouts == LayoutsFrom(0)

\* The periods of a sequence read one data source: one that counts pulses
\* (its periods are pulse periods) or one that reads the physical unit (its
\* periods are non-pulse periods).  Periods of another kind are unsupported.
SupportedKinds == {"nonpulse", "pulse"}

\* Cumulative meter readings: the values never decrease over time.
CumulativeRawDataSets ==
    { d \in RawDataSets :
        \A r1 \in d, r2 \in d : r1.timestamp < r2.timestamp => r1.value <= r2.value }

Requests ==
    { [from_timestamp |-> f, to_timestamp |-> t] : f \in Times, t \in Times }

\* An accumulation sequence and a call of its get_samples.
Init ==
    /\ \E b \in Layouts, datasource \in CumulativeRawDataSets,
          supported \in SupportedKinds :
         \E kinds \in [1..Len(b) -> {supported, "unsupported"}] :
            period_set =
               [i \in 1..Len(b) |->
                  Period(kinds[i], Some(b[i][1]), Some(b[i][2]), datasource,
                         IF kinds[i] = "pulse" THEN 1 ELSE 0,
                         IF kinds[i] = "pulse" THEN 2 ELSE 0)]
    /\ request \in { r \in Requests : r.from_timestamp <= r.to_timestamp }
    /\ pc = "call"
    /\ input_periods = <<>>
    /\ out = <<>>
    /\ origin = <<>>
    /\ period_offset = ZERO
    /\ last_sample_yielded = None
    /\ error = ""
    /\ cached_offset = None
    /\ NoHub
    /\ development_sum = None

Next == Start \/ FirstPeriod \/ NextPeriod \/ Finish

Spec == Init /\ [][Next]_vars

\* ---------------------------------------------- non-accumulation sequences
\* Lines 545-546 without the condition: every sample is yielded.
Yields_every_sample(sample, input_period, to_ts) == TRUE

\* NonaccumulationAdapter._get_samples, lines 545-546: whether a sample of an
\* input period is yielded.
Yields(sample, input_period, to_ts) ==
    \/ Timestamp(sample) # to_timestamp(input_period)
    \/ to_timestamp(input_period) = to_ts

\* Lines 535-538: fetch the periods.
NonaccumulationStart ==
    /\ pc = "call"
    /\ input_periods' = in_range(period_set, request.from_timestamp,
                                 request.to_timestamp)
    /\ pc' = "periods"
    /\ UNCHANGED <<hub_vars, development_sum, period_set, request, out, origin, period_offset,
                   last_sample_yielded, error, cached_offset>>

\* Lines 540-547: the samples of one input period.
NonaccumulationPeriod ==
    /\ pc = "periods"
    /\ input_periods # <<>>
    /\ \E got \in { NonaccumulationPeriodAdapter_get_samples(
                       Head(input_periods),
                       Max(request.from_timestamp,
                           from_timestamp(Head(input_periods))),
                       Min(request.to_timestamp,
                           to_timestamp(Head(input_periods)))) } :
       LET yielded == SelectSeq(got.samples,
                                LAMBDA sample :
                                   Yields(sample, Head(input_periods),
                                          request.to_timestamp))
       IN  /\ out' = out \o yielded
           /\ origin' = origin \o [i \in 1..Len(yielded) |-> Consumed + 1]
           /\ error' = got.error
           /\ pc' = IF got.error = "" THEN "periods" ELSE "raised"
    /\ input_periods' = Tail(input_periods)
    /\ UNCHANGED <<hub_vars, development_sum, period_set, request, period_offset, last_sample_yielded,
                   cached_offset>>

\* The generator is exhausted.
NonaccumulationEnd ==
    /\ pc = "periods"
    /\ input_periods = <<>>
    /\ pc' = "done"
    /\ UNCHANGED <<hub_vars, development_sum, period_set, request, input_periods, out, origin,
                   period_offset, last_sample_yielded, error, cached_offset>>

\* A non-accumulation sequence and a call of its get_samples.
InitNonaccumulation ==
    /\ \E b \in Layouts, datasource \in RawDataSets :
          period_set =
             [i \in 1..Len(b) |->
                Period("nonaccumulation", Some(b[i][1]), Some(b[i][2]),
                       datasource, 0, 0)]
    /\ request \in { r \in Requests : r.from_timestamp <= r.to_timestamp }
    /\ pc = "call"
    /\ input_periods = <<>>
    /\ out = <<>>
    /\ origin = <<>>
    /\ period_offset = ZERO
    /\ last_sample_yielded = None
    /\ error = ""
    /\ cached_offset = None
    /\ NoHub
    /\ development_sum = None

NextNonaccumulation ==
    NonaccumulationStart \/ NonaccumulationPeriod \/ NonaccumulationEnd

SpecNonaccumulation == InitNonaccumulation /\ [][NextNonaccumulation]_vars

\* ------------------------------------------------- one period adapter
\* (pulse_quantity, output_quantity) of the pulse periods considered.
Conversions == { <<1, 1>>, <<2, 3>> }

OptionalTimes == {None} \cup { Some(t) : t \in Times }

\* The accumulation period adapters over every data source, with or without
\* explicit bounds.
AccumulationPeriods ==
    { Period(kind_conversion[1], from_ts, to_ts, datasource,
             kind_conversion[2][1], kind_conversion[2][2]) :
        kind_conversion \in ({"nonpulse", "unsupported"} \X { <<0, 0>> })
                            \cup ({"pulse"} \X Conversions),
        from_ts \in OptionalTimes, to_ts \in OptionalTimes,
        datasource \in RawDataSets }

\* An adapter and a call of one of its methods with a range inside the
\* period.
InitPeriod ==
    /\ \E period \in AccumulationPeriods :
          /\ from_timestamp(period) < to_timestamp(period)
          /\ period_set = <<period>>
    /\ request \in { r \in Requests : r.from_timestamp <= r.to_timestamp }
    /\ from_timestamp(period_set[1]) <= request.from_timestamp
    /\ request.to_timestamp <= to_timestamp(period_set[1])
    /\ pc = "adapter"
    /\ input_periods = <<>>
    /\ out = <<>>
    /\ origin = <<>>
    /\ period_offset = ZERO
    /\ last_sample_yielded = None
    /\ error = ""
    /\ cached_offset = None
    /\ NoHub
    /\ development_sum = None

\* The offset property is read.
ReadOffset ==
    /\ pc = "adapter"
    /\ cached_offset' = Some(offset(period_set[1]))
    /\ pc' = "offset"
    /\ UNCHANGED <<hub_vars, development_sum, period_set, request, input_periods, out, origin,
                   period_offset, last_sample_yielded, error>>

\* _get_raw_samples(from, to) is run to its end.
RunGetRawSamples ==
    /\ pc = "adapter"
    /\ \E got \in { Yielded(_get_raw_samples(period_set[1],
                                             request.from_timestamp,
                                             request.to_timestamp)) } :
          /\ out' = got.samples
          /\ error' = got.error
    /\ pc' = "raw_samples"
    /\ UNCHANGED <<hub_vars, development_sum, period_set, request, input_periods, origin, period_offset,
                   last_sample_yielded, cached_offset>>

\* get_samples(from, to) is run to its end.
RunGetSamples ==
    /\ pc = "adapter"
    /\ \E got \in { get_samples(period_set[1], request.from_timestamp,
                                request.to_timestamp) } :
          /\ out' = got.samples
          /\ error' = got.error
    /\ pc' = "samples"
    /\ UNCHANGED <<hub_vars, development_sum, period_set, request, input_periods, origin, period_offset,
                   last_sample_yielded, cached_offset>>

NextPeriodAdapter == ReadOffset \/ RunGetRawSamples \/ RunGetSamples

SpecPeriod == InitPeriod /\ [][NextPeriodAdapter]_vars

\* ------------------------------------------------ calculate_development
\* Timestamps with their clock fields; the date and the hour are one field.
MaxField == 1

ClockTimes ==
    [hour : 0..MaxField, minute : 0..MaxField, second : 0..MaxField,
     microsecond : 0..MaxField]

\* The order of datetime values: a <= b.
NotAfter(a, b) ==
    LET fa == <<a.hour, a.minute, a.second, a.microsecond>>
        fb == <<b.hour, b.minute, b.second, b.microsecond>>
    IN  \/ fa = fb
        \/ \E i \in 1..4 : fa[i] < fb[i] /\ \A j \in 1..(i - 1) : fa[j] = fb[j]

\* An accumulation adapter, a call of calculate_development(from, to) and
\* what the data sequence answers when asked for the development sum.
InitDevelopment ==
    /\ period_set = <<>>
    /\ request \in { r \in [from_timestamp : ClockTimes,
                             to_timestamp : ClockTimes] :
                         NotAfter(r.from_timestamp, r.to_timestamp) }
    /\ development_sum \in { Some(PhysicalQuantity(v)) : v \in Values }
    /\ pc = "call"
    /\ input_periods = <<>>
    /\ out = <<>>
    /\ origin = <<>>
    /\ period_offset = ZERO
    /\ last_sample_yielded = None
    /\ error = ""
    /\ cached_offset = None
    /\ NoHub

\* AccumulationAdapterBase.calculate_development: the sample made of the
\* development sum, or the call of the inherited calculate_development
\* (which iterates over get_samples).
calculate_development ==
    /\ pc = "call"
    /\ IF is_clock_hour(request.from_timestamp)
          /\ is_clock_hour(request.to_timestamp)
       THEN /\ out' = << Sample(request.from_timestamp, request.to_timestamp,
                                development_sum[1], FALSE, FALSE) >>
            /\ pc' = "returned"
       ELSE /\ out' = out
            /\ pc' = "inherited"
    /\ UNCHANGED <<hub_vars, development_sum, period_set, request, input_periods,
                   origin, period_offset, last_sample_yielded, error,
                   cached_offset>>

NextDevelopment == calculate_development

SpecDevelopment == InitDevelopment /\ [][NextDevelopment]_vars

\* ------------------------------------ one non-accumulation period adapter
\* A non-accumulation period adapter and a call of get_samples with a range
\* inside the period.
InitNonaccumulationPeriod ==
    /\ \E from_ts \in OptionalTimes, to_ts \in OptionalTimes,
          datasource \in RawDataSets :
          period_set = << Period("nonaccumulation", from_ts, to_ts,
                                 datasource, 0, 0) >>
    /\ from_timestamp(period_set[1]) < to_timestamp(period_set[1])
    /\ request \in { r \in Requests : r.from_timestamp <= r.to_timestamp }
    /\ from_timestamp(period_set[1]) <= request.from_timestamp
    /\ request.to_timestamp <= to_timestamp(period_set[1])
    /\ pc = "adapter"
    /\ input_periods = <<>>
    /\ out = <<>>
    /\ origin = <<>>
    /\ period_offset = ZERO
    /\ last_sample_yielded = None
    /\ error = ""
    /\ cached_offset = None
    /\ NoHub
    /\ development_sum = None

\* get_samples(from, to) of the non-accumulation adapter is run to its end.
RunNonaccumulationGetSamples ==
    /\ pc = "adapter"
    /\ \E got \in { NonaccumulationPeriodAdapter_get_samples(
                       period_set[1], request.from_timestamp,
                       request.to_timestamp) } :
          /\ out' = got.samples
          /\ error' = got.error
    /\ pc' = "samples"
    /\ UNCHANGED <<hub_vars, development_sum, period_set, request, input_periods, origin, period_offset,
                   last_sample_yielded, cached_offset>>

NextNonaccumulationPeriod == RunNonaccumulationGetSamples

SpecNonaccumulationPeriod ==
    InitNonaccumulationPeriod /\ [][NextNonaccumulationPeriod]_vars

\* --------------------------------------------- the gateway's interfacers
\* EmonHub._update_settings, the part on the interfacers (the logging level
\* and the node list touch no interfacer).
InterfacerNames == {"a", "b"}

SettingValues == {"x", "y"}

\* An interfacer's section of the settings: each key is there or not.
Entries ==
    [Type : {None, Some("EmonHubInterfacer")},
     init_settings : {None} \cup { Some(v) : v \in SettingValues },
     runtimesettings : {None} \cup { Some(v) : v \in SettingValues }]

InterfacerSettings ==
    UNION { [listed -> Entries] : listed \in SUBSET InterfacerNames }

\* EmonHub.__init__, lines 79-80: no interfacer yet.
InitHub ==
    /\ _interfacers = [name \in {} |-> name]
    /\ settings = [name \in {} |-> name]
    /\ previous = [name \in {} |-> name]
    /\ names = {}
    /\ stopped = {}
    /\ created = {}
    /\ set_calls = {}
    /\ pc = "idle"
    /\ period_set = <<>>
    /\ request = [from_timestamp |-> 0, to_timestamp |-> 0]
    /\ input_periods = <<>>
    /\ out = <<>>
    /\ origin = <<>>
    /\ period_offset = ZERO
    /\ last_sample_yielded = None
    /\ error = ""
    /\ cached_offset = None
    /\ development_sum = None

\* _update_settings(settings) is called (lines 83 and 103); line 146: the
\* first loop is over the keys _interfacers has then.
_update_settings ==
    /\ pc = "idle"
    /\ settings' \in InterfacerSettings
    /\ previous' = _interfacers
    /\ names' = DOMAIN _interfacers
    /\ stopped' = {}
    /\ created' = {}
    /\ set_calls' = {}
    /\ pc' = "delete"
    /\ UNCHANGED <<_interfacers, call_vars>>

\* Lines 149-163: whether the first loop leaves the interfacer as it is.
Continues(name) ==
    /\ name \in DOMAIN settings
    /\ settings[name].Type # None
    /\ \/ settings[name].init_settings = None
       \/ settings[name].runtimesettings = None
       \/ _interfacers[name].init_settings = settings[name].init_settings[1]

\* Lines 146-167: one pass of the first loop.
DeleteInterfacer ==
    /\ pc = "delete"
    /\ \E name \in names :
          /\ names' = names \ {name}
          /\ IF Continues(name)
             THEN UNCHANGED <<_interfacers, stopped>>
             ELSE /\ stopped' = stopped \cup {name}
                  /\ _interfacers' =
                        [n \in DOMAIN _interfacers \ {name} |-> _interfacers[n]]
    /\ UNCHANGED <<settings, previous, created, set_calls, pc, call_vars>>

\* Line 169: the second loop is over the items of the settings.
DeleteLoopEnds ==
    /\ pc = "delete"
    /\ names = {}
    /\ names' = DOMAIN settings
    /\ pc' = "create"
    /\ UNCHANGED <<_interfacers, settings, previous, stopped, created,
                   set_calls, call_vars>>

\* Lines 169-192: one pass of the second loop.  Creating an interfacer may
\* fail in its constructor or in its set(); a missing 'init_settings' or
\* 'runtimesettings' raises KeyError, caught at line 184.
CreateOrUpdateInterfacer ==
    /\ pc = "create"
    /\ \E name \in names :
          /\ names' = names \ {name}
          /\ IF name \notin DOMAIN _interfacers
             THEN /\ \E raises \in BOOLEAN :
                        IF \/ settings[name].Type = None
                           \/ settings[name].init_settings = None
                           \/ settings[name].runtimesettings = None
                           \/ raises
                        THEN UNCHANGED <<_interfacers, created>>
                        ELSE /\ _interfacers' =
                                   [n \in DOMAIN _interfacers \cup {name} |->
                                      IF n = name
                                      THEN [Type |-> settings[name].Type[1],
                                            init_settings |->
                                               settings[name].init_settings[1],
                                            runtimesettings |->
                                               settings[name].runtimesettings[1]]
                                      ELSE _interfacers[n]]
                             /\ created' = created \cup {name}
                  /\ UNCHANGED set_calls
             ELSE /\ IF settings[name].runtimesettings # None
                     THEN /\ _interfacers' =
                                [_interfacers EXCEPT
                                    ![name].runtimesettings =
                                       settings[name].runtimesettings[1]]
                          /\ set_calls' = set_calls \cup {name}
                     ELSE UNCHANGED <<_interfacers, set_calls>>
                  /\ UNCHANGED created
    /\ UNCHANGED <<settings, previous, stopped, pc, call_vars>>

\* The second loop ends and _update_settings returns.
CreateLoopEnds ==
    /\ pc = "create"
    /\ names = {}
    /\ pc' = "idle"
    /\ UNCHANGED <<hub_vars, call_vars>>

NextHub ==
    \/ _update_settings
    \/ DeleteInterfacer
    \/ DeleteLoopEnds
    \/ CreateOrUpdateInterfacer
    \/ CreateLoopEnds

SpecHub == InitHub /\ [][NextHub]_vars

\* ------------------------------------------------ accumulation sequences
\* The periods the call under way reads, in order.
Intersecting ==
    in_range(period_set, request.from_timestamp, request.to_timestamp)

\* C1: whenever at least one period intersects [from, to], the first sample
\* of a finished call is at from and its last sample is at to.
C1_StartsAtFromEndsAtTo ==
    (pc = "done" /\ Intersecting # <<>>) =>
        /\ out # <<>>
        /\ Timestamp(out[1]) = request.from_timestamp
        /\ Timestamp(out[Len(out)]) = request.to_timestamp

NonDecreasingInside(period) ==
    \A r1 \in period.datasource, r2 \in period.datasource :
        (/\ from_timestamp(period) <= r1.timestamp
         /\ r1.timestamp < r2.timestamp
         /\ r2.timestamp <= to_timestamp(period)) => r1.value <= r2.value

\* C2: with consecutive supported periods whose readings do not decrease
\* inside a period, the first sample yielded from a later period is not less
\* than the last sample yielded from the period before it.
C2_NoDropAtPeriodBoundary ==
    (/\ pc = "done"
     /\ \A i \in 1..Len(Intersecting) :
           /\ Intersecting[i].kind # "unsupported"
           /\ NonDecreasingInside(Intersecting[i])
     /\ \A i \in 1..(Len(Intersecting) - 1) :
           to_timestamp(Intersecting[i]) = from_timestamp(Intersecting[i + 1]))
    => \A i \in 1..(Len(out) - 1) :
          (origin[i] # 0 /\ origin[i + 1] = origin[i] + 1)
          => ~QLess(out[i + 1].physical_quantity, out[i].physical_quantity)

\* The call finished by appending the sample after the last period.
TrailingSampleAppended ==
    /\ pc = "done"
    /\ last_sample_yielded # None
    /\ Timestamp(last_sample_yielded[1]) # request.to_timestamp

\* C3: when the last sample yielded is not at to, exactly one sample is
\* appended at to, extrapolated and not cachable, with the quantity of the
\* sample yielded just before it.
C3_TrailingSampleHoldsLastQuantity ==
    TrailingSampleAppended =>
        /\ Len(out) >= 2
        /\ Timestamp(out[Len(out)]) = request.to_timestamp
        /\ Timestamp(out[Len(out) - 1]) # request.to_timestamp
        /\ out[Len(out)].extrapolated
        /\ ~out[Len(out)].cachable
        /\ out[Len(out)].physical_quantity = out[Len(out) - 1].physical_quantity

\* C4: when from is the start of the first intersecting period and that
\* period's source has no point before the start, the call yields a first
\* sample and its quantity is zero.
C4_FirstSampleZeroAtPeriodStart ==
    (/\ pc \in {"done", "raised"}
     /\ Intersecting # <<>>
     /\ request.from_timestamp = from_timestamp(Intersecting[1])
     /\ _leading_raw_data(Intersecting[1]) = None)
    => /\ out # <<>>
       /\ out[1].physical_quantity = ZERO

\* C8: every sample yielded that is flagged extrapolated is not cachable:
\* those of a period adapter and those of the sequence, the samples before
\* the first and after the last period included.
C8_ExtrapolatedNeverCachable ==
    \A i \in 1..Len(out) : out[i].extrapolated => ~out[i].cachable

\* A finished call that yielded an extrapolated sample of a later period with
\* a carry added, and a sample of its own.
C8_ExtrapolatedSamplesYielded ==
    /\ pc = "done"
    /\ \E i \in 1..Len(out), j \in 1..Len(out) :
          /\ origin[i] = 0
          /\ out[i].extrapolated
          /\ origin[j] >= 2
          /\ out[j].extrapolated
          /\ out[j].physical_quantity # ZERO

\* C9: when no period intersects [from, to], a finished call has yielded
\* exactly two samples, at from and at to, of quantity zero, extrapolated and
\* not cachable.
C9_NoPeriodYieldsTwoZeroSamples ==
    (pc = "done" /\ Intersecting = <<>>) =>
        out = << [from_timestamp |-> request.from_timestamp,
                  to_timestamp |-> request.from_timestamp,
                  physical_quantity |-> [n |-> 0, d |-> 1],
                  cachable |-> FALSE, extrapolated |-> TRUE],
                 [from_timestamp |-> request.to_timestamp,
                  to_timestamp |-> request.to_timestamp,
                  physical_quantity |-> [n |-> 0, d |-> 1],
                  cachable |-> FALSE, extrapolated |-> TRUE] >>

\* A finished call over a sequence that has periods, none of them in range.
C9_PeriodsOutOfRange ==
    /\ pc = "done"
    /\ period_set # <<>>
    /\ Intersecting = <<>>
    /\ Len(out) = 2

\* ------------------------------------------------------ one period adapter
Adapter == period_set[1]

PointsBefore(timestamp) ==
    { r \in Adapter.datasource : r.timestamp < timestamp }

PointsAfter(timestamp) ==
    { r \in Adapter.datasource : r.timestamp > timestamp }

PointsWithin(a, b) ==
    { r \in Adapter.datasource : a <= r.timestamp /\ r.timestamp <= b }

Latest(points) == CHOOSE r \in points : \A o \in points : o.timestamp <= r.timestamp

Earliest(points) == CHOOSE r \in points : \A o \in points : r.timestamp <= o.timestamp

\* The value at timestamp of the line through the points a and b.
OnLine(timestamp, a, b) ==
    Fraction(a.value * (b.timestamp - a.timestamp)
                + (b.value - a.value) * (timestamp - a.timestamp),
             b.timestamp - a.timestamp)

\* C5: get_samples(from, to) of a pulse or non-pulse adapter, called inside
\* the period, fails neither the assertion on the first nor the one on the
\* final timestamp; what it yields is empty or starts at from and ends at to,
\* and it is empty only if the source has no point at all.
C5_CoversRangeOrEmpty ==
    (pc = "samples" /\ Adapter.kind \in {"nonpulse", "pulse"}) =>
        /\ error \notin {"first_timestamp", "final_timestamp"}
        /\ \/ out = <<>>
           \/ /\ Timestamp(out[1]) = request.from_timestamp
              /\ Timestamp(out[Len(out)]) = request.to_timestamp
        /\ out = <<>> => Adapter.datasource = {}

\* The samples _get_raw_samples is to yield from the points a (before from)
\* and b (after to), either of them None, when no point is within [from, to].
ExpectedWithoutPointInRange(a, b) ==
    LET timestamps == IF request.from_timestamp = request.to_timestamp
                      THEN <<request.from_timestamp>>
                      ELSE <<request.from_timestamp, request.to_timestamp>>
    IN  IF a # None /\ b # None
        THEN [i \in 1..Len(timestamps) |->
                [from_timestamp |-> timestamps[i],
                 to_timestamp |-> timestamps[i],
                 physical_quantity |->
                     QSub(OnLine(timestamps[i], a[1], b[1]), offset(Adapter)),
                 cachable |-> TRUE, extrapolated |-> FALSE]]
        ELSE IF a # None \/ b # None
        THEN [i \in 1..Len(timestamps) |->
                [from_timestamp |-> timestamps[i],
                 to_timestamp |-> timestamps[i],
                 physical_quantity |->
                     QSub(Fraction((IF a # None THEN a[1] ELSE b[1]).value, 1),
                          offset(Adapter)),
                 cachable |-> FALSE, extrapolated |-> TRUE]]
        ELSE <<>>

C7_OffsetCases ==
    pc = "offset" =>
        LET start == from_timestamp(Adapter)
            before == PointsBefore(start)
            inside == PointsWithin(start, to_timestamp(Adapter))
        IN  cached_offset =
               << IF PointsWithin(start, start) # {}
                  THEN Fraction(Latest(PointsWithin(start, start)).value, 1)
                  ELSE IF before # {} /\ inside # {}
                  THEN OnLine(start, Latest(before), Earliest(inside))
                  ELSE IF before # {}
                  THEN Fraction(Latest(before).value, 1)
                  ELSE IF inside # {}
                  THEN Fraction(Earliest(inside).value, 1)
                  ELSE [n |-> 0, d |-> 1] >>

\* An offset interpolated to a value that is no point's value.
C7_OffsetInterpolated ==
    /\ pc = "offset"
    /\ PointsWithin(from_timestamp(Adapter), from_timestamp(Adapter)) = {}
    /\ PointsBefore(from_timestamp(Adapter)) # {}
    /\ PointsWithin(from_timestamp(Adapter), to_timestamp(Adapter)) # {}
    /\ cached_offset[1].d # 1

\* ---------------------------------------------- non-accumulation sequences
\* What the adapter of the i-th period in range yields for the call.
AdapterSamples(i) ==
    NonaccumulationPeriodAdapter_get_samples(
        Intersecting[i],
        Max(request.from_timestamp, from_timestamp(Intersecting[i])),
        Min(request.to_timestamp, to_timestamp(Intersecting[i]))).samples

\* The samples of out that come from the i-th period in range, in order.
YieldedFrom(i) ==
    LET at == { k \in 1..Len(out) : origin[k] = i }
    IN  [j \in 1..Cardinality(at) |->
            out[(CHOOSE k \in at : \A o \in at : k <= o) + j - 1]]

\* C10: a sample at the end of the period it comes from is yielded only if
\* that end is the call's to; the other samples of every period in range are
\* yielded as the adapter gave them, in order, and those at a raw point have
\* the point's value: no offset, no carry.
C10_SuppressedAtPeriodEnd ==
    pc = "done" =>
        /\ \A k \in 1..Len(out) :
              Timestamp(out[k]) = to_timestamp(Intersecting[origin[k]])
              => to_timestamp(Intersecting[origin[k]]) = request.to_timestamp
        /\ \A i \in 1..Len(Intersecting) :
              YieldedFrom(i) =
                 SelectSeq(AdapterSamples(i),
                           LAMBDA sample :
                              \/ Timestamp(sample) # to_timestamp(Intersecting[i])
                              \/ to_timestamp(Intersecting[i]) = request.to_timestamp)
        /\ \A k \in 1..Len(out) :
              \A r \in Intersecting[origin[k]].datasource :
                 r.timestamp = Timestamp(out[k])
                 => out[k].physical_quantity = Fraction(r.value, 1)

\* A finished call over two periods or more, the adapter of one of which gave
\* a sample at the period's end that the call did not yield.
C10_SampleSuppressed ==
    /\ pc = "done"
    /\ Len(Intersecting) >= 2
    /\ \E i \in 1..Len(Intersecting) :
          /\ to_timestamp(Intersecting[i]) # request.to_timestamp
          /\ \E k \in 1..Len(AdapterSamples(i)) :
                Timestamp(AdapterSamples(i)[k]) = to_timestamp(Intersecting[i])
          /\ YieldedFrom(i) # <<>>
          /\ Len(YieldedFrom(i)) < Len(AdapterSamples(i))

\* ------------------------------------ one non-accumulation period adapter
SamplesOf(samples) == { samples[i] : i \in 1..Len(samples) }

StrictlyIncreasing(samples) ==
    \A i \in 1..(Len(samples) - 1) :
       Timestamp(samples[i]) < Timestamp(samples[i + 1])

PointSample(timestamp, quantity, cachable, extrapolated) ==
    [from_timestamp |-> timestamp, to_timestamp |-> timestamp,
     physical_quantity |-> quantity,
     cachable |-> cachable, extrapolated |-> extrapolated]

\* The sample the boundary rule puts at timestamp, a bound of the call that
\* is not at a point: interpolated between the nearest points on both sides
\* when both exist; else, if extrapolating, held from the nearest point.
BoundarySamples(timestamp, extrapolating) ==
    LET before == PointsBefore(timestamp)
        after == PointsAfter(timestamp)
    IN  IF PointsWithin(timestamp, timestamp) # {} THEN {}
        ELSE IF before # {} /\ after # {}
        THEN { PointSample(timestamp,
                           OnLine(timestamp, Latest(before), Earliest(after)),
                           TRUE, FALSE) }
        ELSE IF extrapolating /\ Adapter.datasource # {}
        THEN { PointSample(timestamp,
                           Fraction((IF before # {} THEN Latest(before)
                                     ELSE Earliest(after)).value, 1),
                           FALSE, TRUE) }
        ELSE {}

\* What the boundary rule gives for the call: the points within [from, to]
\* as they are, and the boundary samples at from and at to.
BoundaryRule(extrapolating) ==
    { PointSample(r.timestamp, Fraction(r.value, 1), TRUE, FALSE) :
         r \in PointsWithin(request.from_timestamp, request.to_timestamp) }
    \cup BoundarySamples(request.from_timestamp, extrapolating)
    \cup BoundarySamples(request.to_timestamp, extrapolating)

PeriodSamples(i) ==
    get_samples(Intersecting[i],
                Max(request.from_timestamp, from_timestamp(Intersecting[i])),
                Min(request.to_timestamp, to_timestamp(Intersecting[i])))

\* The call has ended, by itself or by an assertion, over periods one of
\* which is unsupported.
EndedOverUnsupportedPeriod ==
    /\ pc \in {"done", "raised"}
    /\ \E i \in 1..Len(Intersecting) : Intersecting[i].kind = "unsupported"

\* C12: an unsupported period yields no sample and raises nothing, and a call
\* over a sequence with such a period among its periods in range finishes
\* without an error, with a sample at every timestamp at which the adapter
\* of a supported period in range yields one.
C12_UnsupportedPeriodIsSkipped ==
    EndedOverUnsupportedPeriod =>
        /\ pc = "done"
        /\ error = ""
        /\ \A i \in 1..Len(Intersecting) :
              IF Intersecting[i].kind = "unsupported"
              THEN PeriodSamples(i) = Outcome(<<>>, "")
              ELSE \A k \in 1..Len(PeriodSamples(i).samples) :
                      \E j \in 1..Len(out) :
                         Timestamp(out[j]) =
                            Timestamp(PeriodSamples(i).samples[k])

\* ------------------------------------------------ calculate_development
\* A timestamp on a whole clock hour.
WholeHour(timestamp) ==
    timestamp.minute = 0 /\ timestamp.second = 0 /\ timestamp.microsecond = 0

\* C13: when from and to are both on a whole clock hour, and only then,
\* calculate_development returns one sample from from to to that holds the
\* data sequence's development sum and is not extrapolated, without going
\* through get_samples; otherwise it calls the inherited, per-sample
\* calculate_development.
C13_DevelopmentSumOnClockHours ==
    pc \in {"returned", "inherited"} =>
        IF WholeHour(request.from_timestamp) /\ WholeHour(request.to_timestamp)
        THEN /\ pc = "returned"
             /\ Len(out) = 1
             /\ out[1].from_timestamp = request.from_timestamp
             /\ out[1].to_timestamp = request.to_timestamp
             /\ out[1].physical_quantity = development_sum[1]
             /\ ~out[1].extrapolated
        ELSE /\ pc = "inherited"
             /\ out = <<>>

\* A development sum returned for a range of one hour.
C13_HourRangeReturned ==
    /\ pc = "returned"
    /\ request.from_timestamp.hour < request.to_timestamp.hour
    /\ Len(out) = 1
    /\ out[1].physical_quantity # ZERO

\* ------------------------------------------------- conversion of pulses
\* The reading of the source at timestamp: the point there; else the value
\* on the line between the nearest points on both sides; else the value of
\* the nearest point (the source has at least one point).
ReadingAt(timestamp) ==
    IF PointsWithin(timestamp, timestamp) # {}
    THEN Fraction(Latest(PointsWithin(timestamp, timestamp)).value, 1)
    ELSE IF PointsBefore(timestamp) # {} /\ PointsAfter(timestamp) # {}
    THEN OnLine(timestamp, Latest(PointsBefore(timestamp)),
                Earliest(PointsAfter(timestamp)))
    ELSE IF PointsBefore(timestamp) # {}
    THEN Fraction(Latest(PointsBefore(timestamp)).value, 1)
    ELSE Fraction(Earliest(PointsAfter(timestamp)).value, 1)

\* output_quantity / pulse_quantity of a pulse period, 1 of a non-pulse one.
Scale ==
    IF Adapter.kind = "pulse"
    THEN Fraction(Adapter.output_quantity, Adapter.pulse_quantity)
    ELSE [n |-> 1, d |-> 1]

\* C14: every sample get_samples yields holds the reading at its timestamp
\* minus the period's offset, times output_quantity / pulse_quantity for a
\* pulse period and as it is for a non-pulse period; a call that fails no
\* assertion yields one sample per point within [from, to], and one at from
\* and at to, in time order.
C14_ScaledReadingMinusOffset ==
    (pc = "samples" /\ Adapter.kind \in {"nonpulse", "pulse"}) =>
        /\ \A i \in 1..Len(out) :
              /\ out[i].to_timestamp = out[i].from_timestamp
              /\ out[i].physical_quantity =
                    QMul(Scale, QSub(ReadingAt(Timestamp(out[i])),
                                     offset(Adapter)))
        /\ (error = "" /\ Adapter.datasource # {}) =>
              /\ StrictlyIncreasing(out)
              /\ { Timestamp(out[i]) : i \in 1..Len(out) } =
                    { r.timestamp :
                         r \in PointsWithin(request.from_timestamp,
                                            request.to_timestamp) }
                    \cup {request.from_timestamp, request.to_timestamp}

\* A pulse period of 2 pulses per 3 units that yielded, from from to to, a
\* quantity that is no whole number.
C14_PulsesConverted ==
    /\ pc = "samples"
    /\ Adapter.kind = "pulse"
    /\ Adapter.pulse_quantity = 2
    /\ error = ""
    /\ Len(out) >= 2
    /\ \E i \in 1..Len(out) : out[i].physical_quantity.d = 2

\* ------------------------------------------- postcondition of the first sample
\* C15: the assertion on the first sample of get_samples never fails: in a
\* call with from at the period's start, the first sample the adapter
\* computes, if any, has quantity zero and is yielded.
C15_FirstSampleAssertionHolds ==
    (/\ pc = "samples"
     /\ Adapter.kind \in {"nonpulse", "pulse"}
     /\ request.from_timestamp = from_timestamp(Adapter))
    => /\ error # "first_quantity"
       /\ out # <<>> => out[1].physical_quantity = ZERO

\* ------------------------------------------------ precondition of interpolate
\* C16: no call of interpolate made by _get_raw_samples, by get_samples or
\* by the offset property fails interpolate's assertion
\* timestamp_a <= timestamp < timestamp_b.
C16_InterpolateCalledWithinPoints ==
    /\ pc \in {"raw_samples", "samples"} => error # "interpolate"
    /\ pc = "offset" => cached_offset # Some(Raised)
    /\ \A i \in 1..Len(out) : out[i].physical_quantity # Raised

\* _get_raw_samples has run to its end with an interpolated sample at from,
\* before the first point in range.
C16_InterpolatedBeforeFirstPoint ==
    /\ pc = "raw_samples"
    /\ error = ""
    /\ PointsWithin(request.from_timestamp, request.to_timestamp) # {}
    /\ PointsWithin(request.from_timestamp, request.from_timestamp) = {}
    /\ PointsBefore(request.from_timestamp) # {}
    /\ Len(out) >= 2
    /\ Timestamp(out[1]) = request.from_timestamp
    /\ ~out[1].extrapolated

\* ------------------------------------------------------ order of the samples
\* C17: in a call with from < to the timestamps of the samples yielded are
\* strictly increasing: none is yielded twice, at a join of two periods or
\* next to the samples before the first and after the last period.
C17_TimestampsStrictlyIncreasing ==
    request.from_timestamp < request.to_timestamp => StrictlyIncreasing(out)

\* A finished call that yielded the sample before the first period and
\* samples of two periods.
C17_JoinedPeriodsYielded ==
    /\ pc = "done"
    /\ request.from_timestamp < request.to_timestamp
    /\ out # <<>>
    /\ origin[1] = 0
    /\ \E i \in 1..Len(out), j \in 1..Len(out) : origin[i] = 1 /\ origin[j] = 2

\* --------------------------------------------- the gateway's interfacers
\* The interfacers that were running when the update began and whose
\* section of the settings has a 'Type' but no 'init_settings' or no
\* 'runtimesettings'.
RunningWithIncompleteSettings ==
    { name \in DOMAIN previous \cap DOMAIN settings :
         /\ settings[name].Type # None
         /\ \/ settings[name].init_settings = None
            \/ settings[name].runtimesettings = None }

\* C18: a finished update has left a running interfacer whose section has a 'Type' but
\* lacks 'init_settings' or 'runtimesettings' as it was: not stopped, still
\* registered, not created anew, its set() not called and its settings the
\* same.
C18_IncompleteSettingsLeaveInterfacer ==
    pc = "idle" =>
    \A name \in RunningWithIncompleteSettings :
       /\ name \notin stopped
       /\ name \in DOMAIN _interfacers
       /\ name \notin created
       /\ name \notin set_calls
       /\ _interfacers[name] = previous[name]

====
